---- MODULE Spec2Model ----
(***************************************************************************)
(* Model of WX-exif4filler.py: scan a folder of JPG files, fill the        *)
(* missing capture dates per filename month (00:00, 00:30, 01:00, ...),    *)
(* preview, and on confirmation write the filled dates back to EXIF.       *)
(*                                                                         *)
(* Strings (file names, EXIF values) are tuples of one-character strings   *)
(* so that sorting, the regular expression, the extension test and the     *)
(* date formatting/parsing are computed character by character.            *)
(* A datetime is the tuple <<year, month, day, hour, minute, second>>.     *)
(* Python's None (and pandas' NaT/NaN) is the empty tuple.                 *)
(* There is one folder, so a row's path is identified with its file name.  *)
(***************************************************************************)
EXTENDS Integers, Sequences, FiniteSets, TLC

\* ---------------------------------------------------------------- bounds
\* largest number of entries of an enumerated folder
MaxFiles == 2
\* number of undated files of the large single-month folder (at most 99)
MaxMissing == 49
\* number of times the program is run on the folder
MaxRuns == 2

None == <<>>

\* ------------------------------------------------------------ characters
Alphabet ==
  << " ", "-", ".", "0", "1", "2", "3", "4", "5", "6", "7", "8", "9", ":",
     "A", "B", "C", "D", "E", "F", "G", "I", "J", "M", "N", "P", "_",
     "g", "j", "n", "p" >>

\* position of a character in code point order (str comparison)
Ord == [c \in {Alphabet[i] : i \in DOMAIN Alphabet} |->
          CHOOSE i \in DOMAIN Alphabet : Alphabet[i] = c]

DigitChars == << "0", "1", "2", "3", "4", "5", "6", "7", "8", "9" >>

IsDigit(c) == \E n \in 1..10 : DigitChars[n] = c

DigitVal(c) == (CHOOSE n \in 1..10 : DigitChars[n] = c) - 1

LowerOf == ("G" :> "g") @@ ("J" :> "j") @@ ("N" :> "n") @@ ("P" :> "p")

\* str.lower() on the characters of the alphabet that occur in extensions
lower(s) == [i \in DOMAIN s |-> IF s[i] \in DOMAIN LowerOf THEN LowerOf[s[i]] ELSE s[i]]

endswith(s, suffix) ==
  /\ Len(s) >= Len(suffix)
  /\ SubSeq(s, Len(s) - Len(suffix) + 1, Len(s)) = suffix

\* Python's str "<": lexicographic by code point, a proper prefix is smaller
RECURSIVE str_lt(_, _)
str_lt(a, b) ==
  IF b = <<>> THEN FALSE
  ELSE IF a = <<>> THEN TRUE
  ELSE IF a[1] = b[1] THEN str_lt(Tail(a), Tail(b))
  ELSE Ord[a[1]] < Ord[b[1]]

\* int() of a string of decimal digits
RECURSIVE int(_)
int(s) ==
  IF s = <<>> THEN 0
  ELSE 10 * int(SubSeq(s, 1, Len(s) - 1)) + DigitVal(s[Len(s)])

\* -------------------------------------------------------------- datetime
IsLeap(y) == (y % 4 = 0 /\ y % 100 # 0) \/ y % 400 = 0

DaysInMonth(y, m) ==
  IF m = 2 THEN (IF IsLeap(y) THEN 29 ELSE 28)
  ELSE IF m \in {4, 6, 9, 11} THEN 30 ELSE 31

\* the argument check of datetime(...): outside it the constructor raises ValueError
ValidDateTime(y, m, d, H, M, S) ==
  /\ y \in 1..9999
  /\ m \in 1..12
  /\ d \in 1..DaysInMonth(y, m)
  /\ H \in 0..23
  /\ M \in 0..59
  /\ S \in 0..59

\* datetime.replace(hour=, minute=, second=)
replace(dt, H, M, S) == << dt[1], dt[2], dt[3], H, M, S >>

Pad2(n) == << DigitChars[((n \div 10) % 10) + 1], DigitChars[(n % 10) + 1] >>

Pad4(n) == Pad2(n \div 100) \o Pad2(n % 100)

\* decimal digits of n without leading zeros
RECURSIVE Decimal(_)
Decimal(n) ==
  IF n < 10 THEN << DigitChars[n + 1] >>
  ELSE Decimal(n \div 10) \o << DigitChars[(n % 10) + 1] >>

\* %Y of strftime: the C library decides whether a year below 1000 is
\* zero-filled to four digits (pad) or printed as it is
FormatYear(y, pad) == IF pad THEN Pad4(y) ELSE Decimal(y)

\* strftime("%Y<sep>%m<sep>%d %H:%M:%S")
strftime(dt, sep, pad) ==
  FormatYear(dt[1], pad) \o <<sep>> \o Pad2(dt[2]) \o <<sep>> \o Pad2(dt[3])
    \o <<" ">> \o Pad2(dt[4]) \o <<":">> \o Pad2(dt[5]) \o <<":">> \o Pad2(dt[6])

\* the shape strptime's "%Y:%m:%d %H:%M:%S" accepts among the values that
\* are stored here: four year digits and two digits for every other field
MatchesFormat(value) ==
  /\ Len(value) = 19
  /\ \A i \in {5, 8, 14, 17} : value[i] = ":"
  /\ value[11] = " "
  /\ \A i \in (1..19) \ {5, 8, 11, 14, 17} : IsDigit(value[i])

ParsedFields(value) ==
  << int(SubSeq(value, 1, 4)), int(SubSeq(value, 6, 7)), int(SubSeq(value, 9, 10)),
     int(SubSeq(value, 12, 13)), int(SubSeq(value, 15, 16)), int(SubSeq(value, 18, 19)) >>

\* datetime.strptime(value, "%Y:%m:%d %H:%M:%S"); None stands for ValueError
strptime(value) ==
  IF ~MatchesFormat(value) THEN None
  ELSE LET f == ParsedFields(value)
       IN IF ValidDateTime(f[1], f[2], f[3], f[4], f[5], f[6]) THEN f ELSE None

\* ------------------------------------------------------ files on the disk
\* a file of the folder: the stored DateTimeOriginal string (None when the
\* file carries no such tag or cannot be opened) and whether the try block
\* of set_exif_datetime runs through for it
NoExif == None

ExifRoundHour ==
  << "2", "0", "2", "4", ":", "0", "1", ":", "1", "5", " ",
     "1", "0", ":", "0", "0", ":", "0", "0" >>

ExifOddSecond ==
  << "2", "0", "2", "3", ":", "1", "2", ":", "3", "1", " ",
     "2", "3", ":", "5", "9", ":", "5", "9" >>

FileStates ==
  { [exif |-> NoExif, writable |-> TRUE],
    [exif |-> NoExif, writable |-> FALSE],
    [exif |-> ExifRoundHour, writable |-> TRUE],
    [exif |-> ExifOddSecond, writable |-> TRUE] }

NameA == << "A", "-", "2", "0", "2", "4", "-", "0", "1", ".", "j", "p", "g" >>
NameB == << "B", "-", "2", "0", "2", "4", "-", "0", "1", ".", "J", "P", "G" >>
NameC == << "C", "-", "2", "0", "2", "4", "-", "0", "1", ".", "j", "p", "g" >>
NameD == << "D", "-", "2", "0", "2", "4", "-", "1", "3", ".", "j", "p", "g" >>
NameE == << "E", "-", "2", "0", "2", "4", "-", "0", "1", ".", "p", "n", "g" >>
NameF == << "F", "-", "0", "0", "1", "2", "-", "0", "3", ".", "j", "p", "g" >>
NameIMG == << "I", "M", "G", ".", "j", "p", "g" >>

Pool == { NameA, NameB, NameC, NameD, NameE, NameF, NameIMG }

\* the k-th file of the large folder: 2024-01_kk.jpg
BigName(k) ==
  << "2", "0", "2", "4", "-", "0", "1", "_" >> \o Pad2(k) \o << ".", "j", "p", "g" >>

\* the large folder: MaxMissing undated files of one month and, second in
\* name order, one dated file
BigFolder ==
  [f \in {BigName(k) : k \in 0..MaxMissing} |->
     [exif |-> IF f = BigName(1) THEN ExifOddSecond ELSE NoExif, writable |-> TRUE]]

SmallFolders ==
  UNION {[S -> FileStates] : S \in {T \in SUBSET Pool : Cardinality(T) <= MaxFiles}}

Folders == SmallFolders \cup {BigFolder}

\* the members of a finite set of strings in descending order
Descending(S) ==
  [i \in 1..Cardinality(S) |->
     CHOOSE f \in S : Cardinality({g \in S : str_lt(f, g)}) = i - 1]

\* os.listdir: the entries in an arbitrary order (every order for a folder
\* of at most MaxFiles entries, the descending one for a larger folder)
listdir(d) ==
  IF Cardinality(DOMAIN d) <= MaxFiles
  THEN {s \in [1..Cardinality(DOMAIN d) -> DOMAIN d] :
          \A i, j \in DOMAIN s : i # j => s[i] # s[j]}
  ELSE {Descending(DOMAIN d)}

\* sorted(list of str)
RECURSIVE insort(_, _)
insort(s, x) ==
  IF s = <<>> THEN <<x>>
  ELSE IF str_lt(x, Head(s)) THEN <<x>> \o s
  ELSE <<Head(s)>> \o insort(Tail(s), x)

RECURSIVE sorted(_)
sorted(s) == IF s = <<>> THEN <<>> ELSE insort(sorted(SubSeq(s, 1, Len(s) - 1)), s[Len(s)])

IsJpg(f) == endswith(lower(f), << ".", "j", "p", "g" >>)

\* ----------------------------------------------------------------- tools
get_exif_datetime(file) ==
  IF file.exif = NoExif THEN None ELSE strptime(file.exif)

\* re.search(r"(\d{4}-\d{2})", fname): the leftmost match
MatchAt(s, p) ==
  /\ p + 6 <= Len(s)
  /\ \A k \in 0..3 : IsDigit(s[p + k])
  /\ s[p + 4] = "-"
  /\ IsDigit(s[p + 5])
  /\ IsDigit(s[p + 6])

extract_ym(fname) ==
  IF \E p \in 1..Len(fname) : MatchAt(fname, p)
  THEN LET p == CHOOSE q \in 1..Len(fname) :
                  MatchAt(fname, q) /\ \A r \in 1..(q - 1) : ~MatchAt(fname, r)
       IN SubSeq(fname, p, p + 6)
  ELSE None

date_str(new_dt, pad) == strftime(new_dt, ":", pad)

\* the folder after set_exif_datetime: the three date tags are set and the
\* file saved, or an exception is caught and printed and the file still
\* carries no readable DateTimeOriginal
set_exif_datetime(d, path, new_dt, pad) ==
  IF d[path].writable
  THEN [disk |-> [d EXCEPT ![path].exif = date_str(new_dt, pad)], ok |-> TRUE]
  ELSE [disk |-> d, ok |-> FALSE]

\* ---------------------------------------------------------------- filler
\* group.sort_values("file")
RECURSIVE insort_row(_, _)
insort_row(s, x) ==
  IF s = <<>> THEN <<x>>
  ELSE IF str_lt(x.file, Head(s).file) THEN <<x>> \o s
  ELSE <<Head(s)>> \o insort_row(Tail(s), x)

RECURSIVE sort_values(_)
sort_values(group) ==
  IF group = <<>> THEN <<>>
  ELSE insort_row(sort_values(SubSeq(group, 1, Len(group) - 1)), group[Len(group)])

\* the mutation of na_idx that selects every row of the group
na_idx_every_row(group) == [i \in 1..Len(group) |-> i]

\* group[group["date"].isna()].index: the positions of the undated rows, ascending
na_idx(group) ==
  LET S == {i \in DOMAIN group : group[i].date = None}
  IN [k \in 1..Cardinality(S) |-> CHOOSE i \in S : Cardinality({j \in S : j < i}) = k - 1]

\* the mutation of total_min that steps by a whole hour
total_min_hourly(seq) == seq * 60

total_min(seq) == seq * 30

\* the mutation of hour that lets the hour run past 23
hour_unwrapped(t) == t \div 60

hour(t) == (t \div 60) % 24

minute(t) == t % 60

\* fill_month: raised stands for the ValueError of datetime(y, m, 1)
fill_month(rows) ==
  LET group == sort_values(rows)
      month_str == group[1].ym
      y == int(SubSeq(month_str, 1, 4))
      m == int(SubSeq(month_str, 6, 7))
      base_day == << y, m, 1, 0, 0, 0 >>
      na == na_idx(group)
  IN IF month_str = None THEN [raised |-> FALSE, group |-> group]
     ELSE IF ~ValidDateTime(y, m, 1, 0, 0, 0) THEN [raised |-> TRUE, group |-> <<>>]
     ELSE IF na = <<>> THEN [raised |-> FALSE, group |-> group]
     ELSE [raised |-> FALSE,
           group |-> [idx \in DOMAIN group |->
                        IF \E k \in DOMAIN na : na[k] = idx
                        THEN LET seq == (CHOOSE k \in DOMAIN na : na[k] = idx) - 1
                                 t == total_min(seq)
                             IN [group[idx] EXCEPT !.date = replace(base_day, hour(t), minute(t), 0)]
                        ELSE group[idx]]]

\* the keys of df.groupby("ym"): the distinct non-null values, ascending
\* (rows whose key is null belong to no group)
group_keys(df) == sorted(Descending({df[i].ym : i \in DOMAIN df} \ {None}))

RECURSIVE apply(_, _)
\* groupby(...).apply(fill_month): the groups' results concatenated in key order
apply(df, keys) ==
  IF keys = <<>> THEN [raised |-> FALSE, group |-> <<>>]
  ELSE LET first == fill_month(SelectSeq(df, LAMBDA r : r.ym = Head(keys)))
           rest == apply(df, Tail(keys))
       IN IF first.raised \/ rest.raised THEN [raised |-> TRUE, group |-> <<>>]
          ELSE [raised |-> FALSE, group |-> first.group \o rest.group]

\* the flag of a preview line
flag(date) ==
  IF date[6] = 0 /\ date[5] \in {0, 30} THEN "synthetic" ELSE "original"

\* ----------------------------------------------------------------- state
VARIABLES
  disk,      \* the folder: file name -> [exif, writable]
  disk0,     \* the folder as it was when the current run started
  zero_pad,  \* whether this build's strftime zero-fills %Y
  folder,    \* the result of askdirectory: "" or the folder
  files,     \* the sorted names of the JPG files
  df,        \* the scanned rows [file, ym, date]
  filled,    \* the rows after the fill
  txt,       \* the lines of the preview window
  pc,        \* the position of main()
  outcome,   \* how the current run ended, "running" until then
  writes,    \* the calls of set_exif_datetime of the current run
  run,       \* the number of the current run
  history    \* outcome and writes of the finished runs

vars == << disk, disk0, zero_pad, folder, files, df, filled, txt, pc, outcome,
           writes, run, history >>

Init ==
  /\ disk \in Folders
  /\ disk0 = disk
  /\ zero_pad \in BOOLEAN
  /\ folder = ""
  /\ files = <<>>
  /\ df = <<>>
  /\ filled = <<>>
  /\ txt = <<>>
  /\ pc = "askdirectory"
  /\ outcome = "running"
  /\ writes = <<>>
  /\ run = 1
  /\ history = <<>>

\* lines 67-70
AskDirectory ==
  /\ pc = "askdirectory"
  /\ \E choice \in {"", "photos"} :
       /\ folder' = choice
       /\ IF choice = ""
          THEN pc' = "exit" /\ outcome' = "no_folder"
          ELSE pc' = "listdir" /\ outcome' = outcome
  /\ UNCHANGED << disk, disk0, zero_pad, files, df, filled, txt, writes, run, history >>

\* lines 72-75
ListFiles ==
  /\ pc = "listdir"
  /\ \E listing \in listdir(disk) :
       files' = sorted(SelectSeq(listing, IsJpg))
  /\ IF files' = <<>>
     THEN pc' = "exit" /\ outcome' = "no_files"
     ELSE pc' = "scan" /\ outcome' = outcome
  /\ UNCHANGED << disk, disk0, zero_pad, folder, df, filled, txt, writes, run, history >>

\* lines 78-85
Scan ==
  /\ pc = "scan"
  /\ df' = [i \in DOMAIN files |->
              [file |-> files[i], ym |-> extract_ym(files[i]),
               date |-> get_exif_datetime(disk[files[i]])]]
  /\ pc' = "fill"
  /\ UNCHANGED << disk, disk0, zero_pad, folder, files, filled, txt, outcome, writes,
                  run, history >>

\* line 112; a ValueError raised in fill_month ends main() with a traceback
Fill ==
  /\ pc = "fill"
  /\ LET res == apply(df, group_keys(df))
     IN IF res.raised
        THEN filled' = filled /\ pc' = "exit" /\ outcome' = "error"
        ELSE filled' = res.group /\ pc' = "preview" /\ outcome' = outcome
  /\ UNCHANGED << disk, disk0, zero_pad, folder, files, df, txt, writes, run, history >>

\* lines 115-128 and 145-151
Preview ==
  /\ pc = "preview"
  /\ txt' = [i \in DOMAIN filled |->
               [flag |-> flag(filled[i].date), file |-> filled[i].file,
                text |-> strftime(filled[i].date, "-", zero_pad)]]
  /\ pc' = "mainloop"
  /\ UNCHANGED << disk, disk0, zero_pad, folder, files, df, filled, outcome, writes,
                  run, history >>

\* the mutation of should_write that writes every row back
should_write_every_row(original) == TRUE

\* line 135
should_write(original) == original = None

\* the mutation of on_confirm_rows in which a failed write ends the loop
RECURSIVE on_confirm_rows_abort(_, _, _, _)
on_confirm_rows_abort(rows, d, log, pad) ==
  IF rows = <<>> THEN [disk |-> d, writes |-> log]
  ELSE LET row == Head(rows)
           original == get_exif_datetime(d[row.file])
           w == set_exif_datetime(d, row.file, row.date, pad)
           entry == [path |-> row.file, dt |-> row.date, ok |-> w.ok]
       IN IF ~should_write(original) THEN on_confirm_rows_abort(Tail(rows), d, log, pad)
          ELSE IF ~w.ok THEN [disk |-> w.disk, writes |-> Append(log, entry)]
          ELSE on_confirm_rows_abort(Tail(rows), w.disk, Append(log, entry), pad)

\* lines 132-136: the loop of on_confirm over the rows of filled
RECURSIVE on_confirm_rows(_, _, _, _)
on_confirm_rows(rows, d, log, pad) ==
  IF rows = <<>> THEN [disk |-> d, writes |-> log]
  ELSE LET row == Head(rows)
           original == get_exif_datetime(d[row.file])
           w == set_exif_datetime(d, row.file, row.date, pad)
           entry == [path |-> row.file, dt |-> row.date, ok |-> w.ok]
       IN IF should_write(original)
          THEN on_confirm_rows(Tail(rows), w.disk, Append(log, entry), pad)
          ELSE on_confirm_rows(Tail(rows), d, log, pad)

\* lines 130-139
OnConfirm ==
  /\ pc = "mainloop"
  /\ LET res == on_confirm_rows(filled, disk, <<>>, zero_pad)
     IN disk' = res.disk /\ writes' = res.writes
  /\ pc' = "exit"
  /\ outcome' = "confirmed"
  /\ UNCHANGED << disk0, zero_pad, folder, files, df, filled, txt, run, history >>

\* the mutation of OnCancel that writes the filled dates back before leaving
OnCancelWriting ==
  /\ pc = "mainloop"
  /\ LET res == on_confirm_rows(filled, disk, <<>>, zero_pad)
     IN disk' = res.disk /\ writes' = res.writes
  /\ pc' = "exit"
  /\ outcome' = "cancelled"
  /\ UNCHANGED << disk0, zero_pad, folder, files, df, filled, txt, run, history >>

\* lines 141-143
OnCancel ==
  /\ pc = "mainloop"
  /\ pc' = "exit"
  /\ outcome' = "cancelled"
  /\ UNCHANGED << disk, disk0, zero_pad, folder, files, df, filled, txt, writes, run,
                  history >>

\* lines 154-155 and 64-65: the program is started again on the folder as the
\* previous run left it
Start ==
  /\ pc = "exit"
  /\ run < MaxRuns
  /\ run' = run + 1
  /\ history' = Append(history, [outcome |-> outcome, writes |-> writes])
  /\ disk0' = disk
  /\ folder' = ""
  /\ files' = <<>>
  /\ df' = <<>>
  /\ filled' = <<>>
  /\ txt' = <<>>
  /\ writes' = <<>>
  /\ pc' = "askdirectory"
  /\ outcome' = "running"
  /\ UNCHANGED << disk, zero_pad >>

Next ==
  \/ AskDirectory
  \/ ListFiles
  \/ Scan
  \/ Fill
  \/ Preview
  \/ OnConfirm
  \/ OnCancel
  \/ Start

Spec == Init /\ [][Next]_vars

\* ------------------------------------------------------------ properties
\* the fill has run to its end in the current run
FillDone ==
  /\ pc \in {"preview", "mainloop", "exit"}
  /\ outcome \in {"running", "confirmed", "cancelled"}

\* the date the Scanner read for a scanned file
ScannedDate(f) == df[CHOOSE i \in DOMAIN df : df[i].file = f].date

\* the fill-sequence index of a scanned undated file: the number of undated
\* files of its month group with a smaller name
FillIndex(f, ym) ==
  Cardinality({j \in DOMAIN df :
                 df[j].ym = ym /\ df[j].date = None /\ str_lt(df[j].file, f)})

ValidYM(ym) == ValidDateTime(int(SubSeq(ym, 1, 4)), int(SubSeq(ym, 6, 7)), 1, 0, 0, 0)

\* C1: a record that had a capture date before the fill has the identical
\* date after the fill
C1_FillKeepsExistingDate ==
  FillDone =>
    \A i \in DOMAIN filled :
      ScannedDate(filled[i].file) # None => filled[i].date = ScannedDate(filled[i].file)

\* a month group with a dated and an undated file has been filled
C1_Witness ==
  /\ FillDone
  /\ \E i, j \in DOMAIN filled :
       /\ filled[i].ym = filled[j].ym
       /\ ScannedDate(filled[i].file) # None
       /\ ScannedDate(filled[j].file) = None
       /\ filled[j].date # None

\* C2: in every month group the undated records, numbered i = 0, 1, ... in
\* file name order, get day 1 of the month at hour (30*i \div 60) % 24,
\* minute (30*i) % 60, second 0; dated records consume no index
C2_FillSequence ==
  FillDone =>
    /\ \A j \in DOMAIN df :
         df[j].ym # None => \E i \in DOMAIN filled : filled[i].file = df[j].file
    /\ \A i \in DOMAIN filled :
         ScannedDate(filled[i].file) = None =>
           LET n == FillIndex(filled[i].file, filled[i].ym)
           IN filled[i].date =
                << int(SubSeq(filled[i].ym, 1, 4)), int(SubSeq(filled[i].ym, 6, 7)), 1,
                   ((30 * n) \div 60) % 24, (30 * n) % 60, 0 >>

\* an undated file with fill index 1 or more comes after a dated file of its group
C2_Witness ==
  /\ FillDone
  /\ \E i, j \in DOMAIN filled :
       /\ filled[i].ym = filled[j].ym
       /\ ScannedDate(filled[j].file) # None
       /\ str_lt(filled[j].file, filled[i].file)
       /\ ScannedDate(filled[i].file) = None
       /\ FillIndex(filled[i].file, filled[i].ym) >= 1

\* C3: every write the Writer issues is for a file whose date was absent at
\* scan time, with the date the Filler gave it
C3_WritesOnlyFilled ==
  \A k \in DOMAIN writes :
    /\ \E i \in DOMAIN df : df[i].file = writes[k].path /\ df[i].date = None
    /\ \E i \in DOMAIN filled :
         filled[i].file = writes[k].path /\ filled[i].date = writes[k].dt

\* a confirmed run wrote a filled file and passed over a dated one
C3_Witness ==
  /\ outcome = "confirmed"
  /\ writes # <<>>
  /\ \E i \in DOMAIN filled : ScannedDate(filled[i].file) # None

\* C4: the output of the Filler holds exactly the scanned records, and the
\* records without a year-month appear in it unmodified
C4_SameRecords ==
  FillDone =>
    /\ {filled[i].file : i \in DOMAIN filled} = {df[j].file : j \in DOMAIN df}
    /\ \A j \in DOMAIN df :
         df[j].ym = None => \E i \in DOMAIN filled : filled[i] = df[j]

\* C5: a group whose key is no valid year and month is skipped unmodified,
\* the other groups are filled and the run goes on to the preview
C5_MalformedGroupSkipped ==
  (/\ pc \in {"preview", "mainloop", "exit"}
   /\ \E j \in DOMAIN df : df[j].ym # None /\ ~ValidYM(df[j].ym))
  =>
  /\ outcome # "error"
  /\ \A j \in DOMAIN df :
       df[j].ym # None =>
         \E i \in DOMAIN filled :
           /\ filled[i].file = df[j].file
           /\ IF ValidYM(df[j].ym) THEN filled[i].date # None ELSE filled[i] = df[j]

\* C6: a preview line is flagged synthetic exactly when the date of its
\* record was assigned by the Filler
C6_FlagIsProvenance ==
  \A i \in DOMAIN txt :
    (txt[i].flag = "synthetic") <=> (ScannedDate(txt[i].file) = None)

\* C7: after a confirmed run whose writes all succeeded, the next confirmed
\* run on the folder issues no write
C7_SecondRunWritesNothing ==
  (/\ run >= 2
   /\ history[run - 1].outcome = "confirmed"
   /\ \A k \in DOMAIN history[run - 1].writes : history[run - 1].writes[k].ok
   /\ outcome = "confirmed")
  => writes = <<>>

\* C8: unless the user confirmed, the run has issued no write and the
\* folder is as it was when the run started
C8_NoWriteWithoutConfirm ==
  outcome # "confirmed" => (writes = <<>> /\ disk = disk0)

\* the user cancelled a preview that held a filled date
C8_Witness ==
  /\ outcome = "cancelled"
  /\ \E i \in DOMAIN filled : ScannedDate(filled[i].file) = None

\* C9: a confirmed run attempts the write for every record that needs one,
\* in order, whichever of the writes fail
C9_FailureIsolated ==
  outcome = "confirmed" =>
    [k \in DOMAIN writes |-> writes[k].path] =
      LET need == SelectSeq(filled, LAMBDA r : ScannedDate(r.file) = None)
      IN [k \in DOMAIN need |-> need[k].file]

\* a write failed and a later record was still written
C9_Witness ==
  /\ outcome = "confirmed"
  /\ \E k, l \in DOMAIN writes : k < l /\ ~writes[k].ok /\ writes[l].ok

\* C10: fill indices 48 apart get the identical timestamp on day 1 (0 and 48
\* both 00:00:00); indices less than 48 apart get distinct timestamps
C10_HourWraps ==
  FillDone =>
    LET und == {i \in DOMAIN filled : ScannedDate(filled[i].file) = None}
        T == {<< filled[i].ym, FillIndex(filled[i].file, filled[i].ym), filled[i].date >> :
                i \in und}
    IN \A a, b \in T :
         a[1] = b[1] =>
           /\ b[2] = a[2] + 48 => a[3] = b[3]
           /\ (a[2] < b[2] /\ b[2] < a[2] + 48) => a[3] # b[3]
           /\ a[2] \in {0, 48} => a[3] = << a[3][1], a[3][2], 1, 0, 0, 0 >>

\* a month group with an undated file at fill index 48 has been filled
C10_Witness ==
  /\ FillDone
  /\ \E i \in DOMAIN filled :
       ScannedDate(filled[i].file) = None /\ FillIndex(filled[i].file, filled[i].ym) = 48

====
